---- MODULE Spec2Model ----
(***************************************************************************)
(* Verification model of the analytical engine of dashboard.py (NPEC       *)
(* Ecotron dashboard): data loading with the row cap, resampling and       *)
(* gap-filling, the seasonal climate model, and the tension-target         *)
(* derivation.                                                             *)
(*                                                                         *)
(* The script is single-threaded; each component is modelled as a state    *)
(* machine over the component's own variables, with one specification per  *)
(* component (SpecTension, SpecLoad, SpecPrep, SpecClimate,               *)
(* SpecInsights).  In a component's specification the variables of the     *)
(* other components keep their idle values.  SpecClimate runs the climate  *)
(* part with the filter widgets at their defaults, SpecCycle runs the same *)
(* steps under other selections of rooms, devices and dates.               *)
(*                                                                         *)
(* Floating point values are modelled as exact rationals plus NaN:         *)
(*   [k |-> "num", n, d]  the rational n/d in lowest terms, d > 0          *)
(*   [k |-> "nan", ...]   not-a-number                                     *)
(*   [k |-> "reg", ...]   the (finite) value of a fitted sinusoidal model, *)
(*                        kept symbolic: n is the day of year, d the       *)
(*                        identity of the coefficient vector               *)
(***************************************************************************)
EXTENDS Integers, Sequences, FiniteSets, TLC

(***************************************************************************)
(* Floats                                                                  *)
(***************************************************************************)
Abs(a) == IF a < 0 THEN -a ELSE a

RECURSIVE GCD(_, _)
GCD(a, b) == IF b = 0 THEN a ELSE GCD(b, a % b)

NaN == [k |-> "nan", n |-> 0, d |-> 1]

\* The rational n/d (d # 0) in lowest terms with a positive denominator.
Num(n, d) ==
    LET g == GCD(Abs(n), Abs(d))
        s == IF d < 0 THEN -1 ELSE 1
    IN  [k |-> "num", n |-> (s * n) \div g, d |-> Abs(d) \div g]

Int2F(i) == Num(i, 1)

IsNaN(v) == v.k = "nan"

IsNum(v) == v.k = "num"

\* IEEE arithmetic on the modelled values: NaN is absorbing.
FAdd(a, b) ==
    IF IsNum(a) /\ IsNum(b) THEN Num(a.n * b.d + b.n * a.d, a.d * b.d) ELSE NaN

FSub(a, b) ==
    IF IsNum(a) /\ IsNum(b) THEN Num(a.n * b.d - b.n * a.d, a.d * b.d) ELSE NaN

FMul(a, b) ==
    IF IsNum(a) /\ IsNum(b) THEN Num(a.n * b.n, a.d * b.d) ELSE NaN

\* a / b; 0/0 is NaN (the only division by zero the model meets).
FDiv(a, b) ==
    IF IsNum(a) /\ IsNum(b) /\ b.n # 0 THEN Num(a.n * b.d, a.d * b.n) ELSE NaN

\* Python's a < b on floats: False whenever an operand is NaN.
FLt(a, b) == IsNum(a) /\ IsNum(b) /\ a.n * b.d < b.n * a.d

FLe(a, b) == IsNum(a) /\ IsNum(b) /\ a.n * b.d <= b.n * a.d

\* Python's builtin min(a, b): b if b < a else a.
PyMin(a, b) == IF FLt(b, a) THEN b ELSE a

\* Python's builtin max(a, b): b if b > a else a.
PyMax(a, b) == IF FLt(a, b) THEN b ELSE a

\* Sum of f[i] over the index set S.
RECURSIVE FSum(_, _)
FSum(f, S) ==
    IF S = {} THEN Int2F(0)
    ELSE LET i == CHOOSE j \in S : TRUE IN FAdd(f[i], FSum(f, S \ {i}))

\* The indices of a sequence of floats that hold a value.
Valid(col) == {i \in DOMAIN col : ~IsNaN(col[i])}

\* pandas Series.median(): the median of the non-missing values, NaN if none.
Median(col) ==
    LET V == Valid(col)
        c == Cardinality(V)
        \* rank of index i among the valid values (ties broken by index)
        Rank(i) == Cardinality({j \in V : FLt(col[j], col[i])
                                          \/ (col[j] = col[i] /\ j < i)}) + 1
        At(r) == col[CHOOSE i \in V : Rank(i) = r]
    IN  IF c = 0 THEN NaN
        ELSE IF c % 2 = 1 THEN At((c + 1) \div 2)
        ELSE FDiv(FAdd(At(c \div 2), At(c \div 2 + 1)), Int2F(2))

(***************************************************************************)
(* Bounds of the model                                                     *)
(***************************************************************************)
\* Most soil levels (moisture or tension columns) of a dataset.
MaxLevels == 2

\* Rows of the frame handed to derive_tension_targets.
NumRows == 2

VARIABLES
    \* derive_tension_targets and the derived-target display loop
    moisture_cols,      \* list of moisture columns (level numbers), any order
    tension_cols,       \* list of tension columns (level numbers), any order
    moisture_targets,   \* dict: moisture column -> target
    i,                  \* loop index of derive_tension_targets (0-based)
    mask_sum,           \* mask.sum() of iteration i: rows with both values
    y_notna,            \* number of non-missing values of y = data[t_col]
    slope, intercept,   \* the line of iteration i (fitted or fallback)
    predicted,          \* intercept + slope * target of iteration i, unclamped
    targets,            \* dict: tension column -> clamped target
    pcT,                \* "idle" | "derive" | "display" | "done" | "raised"
    errT,               \* "none" | "IndexError" | "KeyError" | "LinAlgError"
    \* load_data / load_data_from_zip
    uploaded_files,     \* the files of the upload (or the members of the ZIP)
    is_zip,             \* TRUE: load_data_from_zip, FALSE: load_data
    max_rows,           \* the row cap (0: no cap)
    k,                  \* number of files the loop has gone through
    total_rows,
    data_frames,        \* list of the frames appended: [file, rows]
    reads,              \* the files pd.read_csv was called on
    warnings,           \* number of st.warning calls (limit reached)
    errors,             \* the files an st.error was reported for
    pcL,                \* "idle" | "loop" | "concat" | "done"
    \* resample_data and the gap-filling step
    raw,                \* the loaded frame: rows [device, ts, val]
    selected_freq,      \* "10T" | "30T" | "1H" | "1D"
    resampled,          \* the frame resample_data returned
    data,               \* the frame after the last stage that ran
    pcP,                \* "idle" | "convert" | "resample" | "fill" | "done"
                        \* | "stopped"
    ts_bad,             \* rows of raw whose timestamp text does not match
                        \* "%d.%m.%Y %H:%M:%S"
    conv_error,         \* TRUE: st.error("Error converting timestamp: ...")
    \* the climate model: build_seasonal_models, seasonal_avgs, predict_for_room
    columns,                \* data.columns (the sensor columns), a list of names
    df,                     \* the prepared frame: rows [room, date, hum, temp]
    humidity_cols_model,    \* the humidity columns found (a list of names)
    temperature_cols_model, \* the temperature columns found
    dayofyear_col,          \* the column df["dayofyear"]
    models,                 \* room -> ("humidity" | "temperature") -> coefficients
    seasonal_avgs,          \* room -> ("hum_avg" | "temp_avg") -> 1..365 -> value
    room, date,             \* the arguments of the last predict_for_room call
    dayofyear,              \* date.dayofyear of that call (0: no call yet)
    humidity_pred,
    temperature_pred,
    yearly_preds,           \* the frame get_predictions_over_year returned
    pcC,                    \* "idle" | "discover" | "models" | "avgs" | "filter"
                            \* | "ready" | "done" | "raised" | "stopped"
    selected_rooms,         \* the rooms of the multiselect ("All" resolved)
    selected_devices,       \* the devices of the multiselect ("All" resolved)
    start_date, end_date,   \* the date range of the date input
    filtered_data,          \* the rows of df the filter keeps
    \* the Insights tab: recommendations and sensor-issue detection
    insight_task,           \* "Homogenize moisture content" | "Detect sensor issues"
    moisture_inputs,        \* dict: moisture column -> target (% VWC)
    target_tension_values,  \* dict: tension column -> derived target (kPa)
    dv,                     \* the row of summary_df that is followed (0: none yet)
    row,                    \* that row:
                            \* [m: moisture column -> mean, t: tension column -> mean]
    device_rec,             \* dict of its iteration: level -> [action, change]
    alerts,                 \* the alerts its iteration appended
    n_alerts,               \* len(alerts) after the loop
    shown,                  \* "none" | "table" | "errors" | "success"
    pcI                     \* "idle" | "loop" | "done"

varsT == <<moisture_cols, tension_cols, moisture_targets, i, mask_sum, y_notna,
           slope, intercept, predicted, targets, pcT, errT>>

varsL == <<uploaded_files, is_zip, max_rows, k, total_rows, data_frames, reads,
           warnings, errors, pcL>>

varsP == <<raw, selected_freq, resampled, data, pcP, ts_bad, conv_error>>

varsC == <<columns, df, humidity_cols_model, temperature_cols_model,
           dayofyear_col, models, seasonal_avgs, room, date, dayofyear,
           humidity_pred, temperature_pred, yearly_preds, pcC,
           selected_rooms, selected_devices, start_date, end_date,
           filtered_data>>

\* The selections of the filter widgets and the filtered frame.
filterC == <<selected_rooms, selected_devices, start_date, end_date,
             filtered_data>>

varsI == <<insight_task, moisture_inputs, target_tension_values, dv, row,
           device_rec, alerts, n_alerts, shown, pcI>>

vars == <<varsT, varsL, varsP, varsC, varsI>>

\* The variables of the other components.
othersT == <<varsL, varsP, varsC, varsI>>

othersL == <<varsT, varsP, varsC, varsI>>

othersP == <<varsT, varsL, varsC, varsI>>

othersC == <<varsT, varsL, varsP, varsI>>

\* The Insights tab reads moisture_cols and tension_cols (lines 895-896).
othersI == <<moisture_targets, i, mask_sum, y_notna, slope, intercept,
             predicted, targets, pcT, errT, varsL, varsP, varsC>>

\* The idle values of a component that is not running.
IdleT ==
    /\ moisture_cols = <<>>
    /\ tension_cols = <<>>
    /\ moisture_targets = <<>>
    /\ i = 0
    /\ mask_sum = 0
    /\ y_notna = 0
    /\ slope = NaN
    /\ intercept = NaN
    /\ predicted = NaN
    /\ targets = <<>>
    /\ pcT = "idle"
    /\ errT = "none"

IdleL ==
    /\ uploaded_files = <<>>
    /\ is_zip = FALSE
    /\ max_rows = 0
    /\ k = 0
    /\ total_rows = 0
    /\ data_frames = <<>>
    /\ reads = {}
    /\ warnings = 0
    /\ errors = {}
    /\ pcL = "idle"

IdleP ==
    /\ raw = <<>>
    /\ selected_freq = "10T"
    /\ resampled = <<>>
    /\ data = <<>>
    /\ pcP = "idle"
    /\ ts_bad = {}
    /\ conv_error = FALSE

IdleC ==
    /\ columns = <<>>
    /\ df = <<>>
    /\ humidity_cols_model = <<>>
    /\ temperature_cols_model = <<>>
    /\ dayofyear_col = <<>>
    /\ models = <<>>
    /\ seasonal_avgs = <<>>
    /\ room = 0
    /\ date = [y |-> 0, m |-> 0, d |-> 0]
    /\ dayofyear = 0
    /\ humidity_pred = NaN
    /\ temperature_pred = NaN
    /\ yearly_preds = <<>>
    /\ pcC = "idle"
    /\ selected_rooms = {}
    /\ selected_devices = {}
    /\ start_date = [y |-> 0, m |-> 0, d |-> 0]
    /\ end_date = [y |-> 0, m |-> 0, d |-> 0]
    /\ filtered_data = <<>>

IdleI ==
    /\ insight_task = "none"
    /\ moisture_inputs = <<>>
    /\ target_tension_values = <<>>
    /\ dv = 0
    /\ row = <<>>
    /\ device_rec = <<>>
    /\ alerts = <<>>
    /\ n_alerts = 0
    /\ shown = "none"
    /\ pcI = "idle"

(***************************************************************************)
(* derive_tension_targets                                                  *)
(***************************************************************************)
CLAMP_LO == -100

CLAMP_HI == 1500

FALLBACK_SLOPE == -2

Levels == 1..MaxLevels

\* The column lists of a dataset with n levels "... 1" to "... n": in the order
\* of the level numbers, or in the opposite order (the order of the columns in
\* the uploaded files is free).
ColLists == UNION {{[j \in 1..n |-> j], [j \in 1..n |-> n + 1 - j]} : n \in 0..MaxLevels}

\* sorted(cols): column names "... 1", "... 2", ... sort by level number.
RECURSIVE Sorted(_)
Sorted(cols) ==
    IF cols = <<>> THEN <<>>
    ELSE LET S == {cols[j] : j \in DOMAIN cols}
             m == CHOOSE a \in S : \A b \in S : a <= b
         IN  <<m>> \o Sorted(SelectSeq(cols, LAMBDA c : c # m))

\* Readings of a moisture column (% VWC) and of a tension column (kPa).
MoistureVals == {NaN, Int2F(0), Int2F(40)}

TensionVals == {NaN, Int2F(0), Int2F(800)}

TargetVals == {Int2F(30), Int2F(100)}

\* The rows of a (moisture, tension) column pair.  mask.sum(), np.polyfit and
\* median() do not depend on the order of the rows, so the frames are taken
\* with their rows in one canonical order.
RowVals == MoistureVals \X TensionVals

RowKey(r) ==
    (IF IsNaN(r[1]) THEN 0 ELSE 1 + r[1].n) * 10000
    + (IF IsNaN(r[2]) THEN 0 ELSE 1 + r[2].n)

Frames == {f \in [1..NumRows -> RowVals] :
             \A a, b \in 1..NumRows : a < b => RowKey(f[a]) <= RowKey(f[b])}

\* mask = (~x.isna()) & (~y.isna())
Mask(xs, ys) == {r \in DOMAIN xs : ~IsNaN(xs[r]) /\ ~IsNaN(ys[r])}

\* np.polyfit(x[mask], y[mask], 1): the outcomes (slope, intercept) of the
\* least-squares line through the masked rows.  polyfit scales the columns of
\* the Vandermonde matrix by their norms and solves with lstsq (minimum norm
\* solution when rank deficient):
\*   - distinct x: the ordinary least-squares line;
\*   - all x equal to c # 0: slope = mean(y)/(2c), intercept = mean(y)/2;
\*   - all x equal to 0: the scaling divides 0 by 0, lstsq is handed NaN and
\*     either raises LinAlgError or returns NaN coefficients.
Polyfit(xs, ys) ==
    LET M   == Mask(xs, ys)
        cnt == Int2F(Cardinality(M))
        Sx  == FSum(xs, M)
        Sy  == FSum(ys, M)
        Sxx == FSum([r \in DOMAIN xs |-> FMul(xs[r], xs[r])], M)
        Sxy == FSum([r \in DOMAIN xs |-> FMul(xs[r], ys[r])], M)
        den == FSub(FMul(cnt, Sxx), FMul(Sx, Sx))
        sl  == FDiv(FSub(FMul(cnt, Sxy), FMul(Sx, Sy)), den)
        ym  == FDiv(Sy, cnt)
        c   == FDiv(Sx, cnt)
    IN  IF den.n # 0
        THEN {[raised |-> FALSE, slope |-> sl,
               intercept |-> FDiv(FSub(Sy, FMul(sl, Sx)), cnt)]}
        ELSE IF c.n # 0
        THEN {[raised |-> FALSE, slope |-> FDiv(ym, FMul(Int2F(2), c)),
               intercept |-> FDiv(ym, Int2F(2))]}
        ELSE {[raised |-> TRUE, slope |-> NaN, intercept |-> NaN],
              [raised |-> FALSE, slope |-> NaN, intercept |-> NaN]}

\* Lines 476-479: the fitted line, or slope -2.0 and the tension median.
FitOutcomes(xs, ys) ==
    IF Cardinality(Mask(xs, ys)) > 1
    THEN Polyfit(xs, ys)
    ELSE {[raised |-> FALSE, slope |-> Int2F(FALLBACK_SLOPE),
           intercept |-> Median(ys)]}

\* Line 480.
Predicted(fit, target) == FAdd(fit.intercept, FMul(fit.slope, target))

ClampSwapped(p) == PyMax(PyMin(p, Int2F(CLAMP_HI)), Int2F(CLAMP_LO))

\* Line 481: max(-100.0, min(1500.0, predicted)).
Clamp(p) == PyMax(Int2F(CLAMP_LO), PyMin(Int2F(CLAMP_HI), p))

\* What one iteration reads off the frame of its column pair: mask.sum() and an
\* outcome of the fit, for every frame.
PairFits == UNION {{[mask_sum |-> Cardinality(Mask([r \in 1..NumRows |-> f[r][1]],
                                                  [r \in 1..NumRows |-> f[r][2]])),
                     y_notna |-> Cardinality(Valid([r \in 1..NumRows |-> f[r][2]])),
                     fit |-> o] :
                    o \in FitOutcomes([r \in 1..NumRows |-> f[r][1]],
                                      [r \in 1..NumRows |-> f[r][2]])}
                   : f \in Frames}

Put(dict, key, val) == [c \in DOMAIN dict \cup {key} |->
                          IF c = key THEN val ELSE dict[c]]

InitT ==
    /\ moisture_cols \in ColLists
    /\ tension_cols \in ColLists
    /\ moisture_targets \in [{moisture_cols[j] : j \in DOMAIN moisture_cols}
                               -> TargetVals]
    /\ i = 0
    /\ mask_sum = 0
    /\ y_notna = 0
    /\ slope = NaN
    /\ intercept = NaN
    /\ predicted = NaN
    /\ targets = <<>>
    /\ pcT = "derive"
    /\ errT = "none"
    /\ IdleL
    /\ IdleP
    /\ IdleC
    /\ IdleI

\* One iteration of the loop of lines 471-482.  The columns data[m_col] and
\* data[t_col] are read here for the first time, so their contents are chosen
\* here (any frame of Frames).
DeriveIter ==
    /\ pcT = "derive"
    /\ i < Len(moisture_cols)
    /\ IF i >= Len(tension_cols)
       THEN \* sorted(tension_cols)[i] raises IndexError
            /\ pcT' = "raised"
            /\ errT' = "IndexError"
            /\ UNCHANGED <<i, mask_sum, y_notna, slope, intercept, predicted,
                           targets>>
       ELSE LET m_col == Sorted(moisture_cols)[i + 1]
                t_col == Sorted(tension_cols)[i + 1]
            IN  \E pf \in PairFits :
                    /\ mask_sum' = pf.mask_sum
                    /\ y_notna' = pf.y_notna
                    /\ slope' = pf.fit.slope
                    /\ intercept' = pf.fit.intercept
                    /\ IF pf.fit.raised
                       THEN /\ pcT' = "raised"
                            /\ errT' = "LinAlgError"
                            /\ UNCHANGED <<i, predicted, targets>>
                       ELSE /\ predicted' = Predicted(pf.fit, moisture_targets[m_col])
                            /\ targets' = Put(targets, t_col, Clamp(predicted'))
                            /\ i' = i + 1
                            /\ UNCHANGED <<pcT, errT>>
    /\ UNCHANGED <<moisture_cols, tension_cols, moisture_targets, othersT>>

\* Line 483: return targets.
DeriveReturn ==
    /\ pcT = "derive"
    /\ i = Len(moisture_cols)
    /\ pcT' = "display"
    /\ UNCHANGED <<moisture_cols, tension_cols, moisture_targets, i, mask_sum,
                   y_notna, slope, intercept, predicted, targets, errT, othersT>>

\* Lines 945-946: one line per sorted tension column, target_tension_values[t_col]
\* raising KeyError for a tension column that was not paired.
DisplayTargets ==
    /\ pcT = "display"
    /\ IF \A j \in DOMAIN tension_cols : tension_cols[j] \in DOMAIN targets
       THEN pcT' = "done" /\ errT' = errT
       ELSE pcT' = "raised" /\ errT' = "KeyError"
    /\ UNCHANGED <<moisture_cols, tension_cols, moisture_targets, i, mask_sum,
                   y_notna, slope, intercept, predicted, targets, othersT>>

NextT == DeriveIter \/ DeriveReturn \/ DisplayTargets

SpecTension == InitT /\ [][NextT]_vars

\* derive_tension_targets has returned its dict.
Returned == pcT \in {"display", "done"} \/ (pcT = "raised" /\ errT = "KeyError")

\* The last completed iteration (i >= 1) paired these columns.
LastM == Sorted(moisture_cols)[i]

LastT == Sorted(tension_cols)[i]

Min(a, b) == IF a <= b THEN a ELSE b

(***************************************************************************)
(* C1: every tension target that derive_tension_targets produces lies in   *)
(* [-100, 1500], for the fitted and for the fallback line, also when the   *)
(* value of the line is NaN.                                               *)
(***************************************************************************)
C1_ClampBounds ==
    \A c \in DOMAIN targets :
        FLe(Int2F(CLAMP_LO), targets[c]) /\ FLe(targets[c], Int2F(CLAMP_HI))

\* The function returned a target computed from an undefined line value.
C1_Witness_NaNLineReturned ==
    /\ Returned
    /\ i >= 1
    /\ IsNaN(predicted)
    /\ LastT \in DOMAIN targets

(***************************************************************************)
(* C9: when the numbers of moisture and tension columns differ, only the   *)
(* first min(#moisture, #tension) sorted columns are paired, targets exist *)
(* for exactly those pairs, and no error is raised.                        *)
(***************************************************************************)
C9_MismatchTruncatesSilently ==
    Len(moisture_cols) # Len(tension_cols) =>
        /\ errT \notin {"IndexError", "KeyError"}
        /\ pcT = "done" =>
             DOMAIN targets =
               {Sorted(tension_cols)[j] :
                  j \in 1..Min(Len(moisture_cols), Len(tension_cols))}

(***************************************************************************)
(* C10: with fewer than 2 rows holding both values and no non-missing      *)
(* tension value at all, the fallback intercept is 0: the target is        *)
(* clamp(-2.0 * moisture_target).                                          *)
(***************************************************************************)
C10_FallbackInterceptZero ==
    (pcT # "raised" /\ i >= 1 /\ mask_sum < 2 /\ y_notna = 0) =>
        /\ intercept = Int2F(0)
        /\ targets[LastT] =
             Clamp(FMul(Int2F(FALLBACK_SLOPE), moisture_targets[LastM]))

(***************************************************************************)
(* C19: derive_tension_targets pairs the i-th sorted moisture column with  *)
(* the i-th sorted tension column and keys the result by the tension       *)
(* column; for a pair with at least 2 rows holding both values the result  *)
(* is the value, at the moisture target, of the least-squares line fitted  *)
(* on those rows (a line with defined coefficients, obtained without an    *)
(* error); with fewer such rows it is the value of the line with slope     *)
(* -2.0 and the median of the non-missing tension values as intercept.     *)
(***************************************************************************)
C19_PairedLeastSquaresLine ==
    /\ errT # "LinAlgError"
    /\ (i >= 1 /\ errT # "LinAlgError") =>
          /\ LastT \in DOMAIN targets
          /\ targets[LastT] =
               Clamp(FAdd(intercept, FMul(slope, moisture_targets[LastM])))
          /\ mask_sum >= 2 => (IsNum(slope) /\ IsNum(intercept))
          /\ mask_sum < 2 =>
               /\ slope = Int2F(FALLBACK_SLOPE)
               /\ IsNaN(intercept) <=> y_notna = 0

(***************************************************************************)
(* load_data and load_data_from_zip                                        *)
(***************************************************************************)
\* Most files of an upload, most rows of a file, largest row cap.
MaxFiles == 3

MaxFileRows == 2

MaxCap == 3

\* A file of the upload: whether pd.read_csv parses it (parses), the rows of
\* the parsed table and whether the table has a timestamp column (has_ts);
\* for a ZIP member also whether the loop processes it (its name ends with
\* ".csv" and does not start with "__MACOSX/").
Files ==
    {[parses |-> TRUE, rows |-> n, csv |-> TRUE, has_ts |-> TRUE] :
        n \in 0..MaxFileRows}
    \cup {[parses |-> FALSE, rows |-> 0, csv |-> TRUE, has_ts |-> TRUE],
          [parses |-> TRUE, rows |-> 1, csv |-> TRUE, has_ts |-> FALSE]}

ZipMembers ==
    Files \cup {[parses |-> TRUE, rows |-> 0, csv |-> FALSE, has_ts |-> TRUE]}

RaisesNever(f) == FALSE

\* Line 363 (400): pd.read_csv raises on a file it cannot parse; nothing else
\* in the try block raises.
Raises(f) == ~f.parses

RECURSIVE SumRows(_)
SumRows(frames) ==
    IF frames = <<>> THEN 0
    ELSE frames[1].rows + SumRows(Tail(frames))

KeepAll(n, total, cap) == n

\* Lines 372-373 (409-410): df.iloc[: max_rows - total_rows] when the file
\* would take the total over the cap.
Keep(n, total, cap) ==
    IF cap # 0 /\ total + n > cap THEN cap - total ELSE n

\* Line 376 (413): max_rows and total_rows >= max_rows.
LimitReached(total, cap) == cap # 0 /\ total >= cap

InitL ==
    /\ is_zip \in BOOLEAN
    /\ uploaded_files \in UNION {[1..n -> IF is_zip THEN ZipMembers ELSE Files]
                                  : n \in 1..MaxFiles}
    /\ max_rows \in 0..MaxCap
    /\ k = 0
    /\ total_rows = 0
    /\ data_frames = <<>>
    /\ reads = {}
    /\ warnings = 0
    /\ errors = {}
    /\ pcL = "loop"
    /\ IdleT
    /\ IdleP
    /\ IdleC
    /\ IdleI

\* Line 397: a ZIP member that is no CSV file, or lies under __MACOSX/, is
\* passed over without being opened.
SkipMember ==
    /\ pcL = "loop"
    /\ k < Len(uploaded_files)
    /\ is_zip
    /\ ~uploaded_files[k + 1].csv
    /\ k' = k + 1
    /\ UNCHANGED <<uploaded_files, is_zip, max_rows, total_rows, data_frames,
                   reads, warnings, errors, pcL, othersL>>

\* Lines 362-380 (398-417): one pass of the loop body over a file that
\* pd.read_csv is called on.
LoadFile ==
    /\ pcL = "loop"
    /\ k < Len(uploaded_files)
    /\ ~is_zip \/ uploaded_files[k + 1].csv
    /\ LET f == uploaded_files[k + 1]
           n == Keep(f.rows, total_rows, max_rows)
       IN  /\ reads' = reads \cup {k + 1}
           /\ k' = k + 1
           /\ IF Raises(f)
              THEN \* except Exception: st.error(...)
                   /\ errors' = errors \cup {k + 1}
                   /\ UNCHANGED <<total_rows, data_frames, warnings, pcL>>
              ELSE IF f.rows = 0
              THEN \* df.empty
                   UNCHANGED <<total_rows, data_frames, warnings, pcL, errors>>
              ELSE /\ data_frames' = Append(data_frames,
                                             [file |-> k + 1, rows |-> n])
                   /\ total_rows' = total_rows + n
                   /\ IF LimitReached(total_rows', max_rows)
                      THEN warnings' = warnings + 1 /\ pcL' = "concat"
                      ELSE UNCHANGED <<warnings, pcL>>
                   /\ UNCHANGED errors
    /\ UNCHANGED <<uploaded_files, is_zip, max_rows, othersL>>

\* The loop ran out of files.
LoopEnd ==
    /\ pcL = "loop"
    /\ k = Len(uploaded_files)
    /\ pcL' = "concat"
    /\ UNCHANGED <<uploaded_files, is_zip, max_rows, k, total_rows, data_frames,
                   reads, warnings, errors, othersL>>

\* Lines 381-384 (418-421): the empty frame and an error when nothing was
\* loaded (file 0 stands for the batch), else pd.concat(data_frames).
Concat ==
    /\ pcL = "concat"
    /\ pcL' = "done"
    /\ errors' = IF data_frames = <<>> THEN errors \cup {0} ELSE errors
    /\ UNCHANGED <<uploaded_files, is_zip, max_rows, k, total_rows, data_frames,
                   reads, warnings, othersL>>

NextL == SkipMember \/ LoadFile \/ LoopEnd \/ Concat

SpecLoad == InitL /\ [][NextL]_vars

\* The rows of the dataset load_data returns.
ReturnedRows == SumRows(data_frames)

(***************************************************************************)
(* C6: for a positive max_rows the rows accumulated never exceed max_rows, *)
(* the returned dataset has at most max_rows rows, and once the count      *)
(* reaches max_rows a warning is emitted and no later file is read or      *)
(* contributes rows.                                                       *)
(***************************************************************************)
C6_RowCap ==
    max_rows > 0 =>
        /\ total_rows <= max_rows
        /\ ReturnedRows = total_rows
        /\ total_rows = max_rows =>
             /\ warnings = 1
             /\ pcL # "loop"
             /\ \A f \in reads : f <= data_frames[Len(data_frames)].file
             /\ \A j \in DOMAIN data_frames :
                    data_frames[j].file <= data_frames[Len(data_frames)].file

\* The cap was reached by truncating a file while later files were waiting.
C6_Witness_TruncatedWithFilesLeft ==
    /\ pcL = "done"
    /\ max_rows > 0
    /\ total_rows = max_rows
    /\ k < Len(uploaded_files)
    /\ uploaded_files[k].rows > data_frames[Len(data_frames)].rows

\* The frames load_data appends for a batch fs of parsed tables [file, rows],
\* none of which raises, from a row count of total on (lines 362-378).
RECURSIVE LoadOf(_, _, _)
LoadOf(fs, total, cap) ==
    IF fs = <<>> THEN <<>>
    ELSE LET f == Head(fs)
             n == Keep(f.rows, total, cap)
         IN  IF f.rows = 0 THEN LoadOf(Tail(fs), total, cap)
             ELSE IF LimitReached(total + n, cap)
             THEN <<[file |-> f.file, rows |-> n]>>
             ELSE <<[file |-> f.file, rows |-> n]>>
                  \o LoadOf(Tail(fs), total + n, cap)

\* The batch without the files that do not parse (and, in a ZIP, without the
\* members the loop passes over), each table with its position in the upload.
ParsedBatch ==
    SelectSeq([j \in DOMAIN uploaded_files |->
                  [file |-> j, rows |-> uploaded_files[j].rows]],
              LAMBDA e : /\ uploaded_files[e.file].parses
                         /\ (is_zip => uploaded_files[e.file].csv))

(***************************************************************************)
(* C15: a source file whose parsing raises is skipped: it contributes no   *)
(* rows and leaves the row count as it was, an error naming the file is    *)
(* reported, and every other file of the batch (before and after it, up to *)
(* the row cap) is loaded exactly as if the bad file were not in the       *)
(* batch.                                                                  *)
(***************************************************************************)
C15_BadFileSkipped ==
    /\ total_rows = SumRows(data_frames)
    /\ \A j \in DOMAIN data_frames : uploaded_files[data_frames[j].file].parses
    /\ \A f \in reads : ~uploaded_files[f].parses => f \in errors
    /\ pcL = "done" => data_frames = LoadOf(ParsedBatch, 0, max_rows)

\* A file that does not parse was reported between two files that were
\* loaded.
C15_Witness_BadFileBetweenLoaded ==
    /\ pcL = "done"
    /\ Len(data_frames) = 2
    /\ \E b \in errors :
          /\ data_frames[1].file < b
          /\ b < data_frames[2].file
          /\ ~uploaded_files[b].parses

(***************************************************************************)
(* C16: a source table that parses but has no timestamp column is skipped  *)
(* as a per-file failure: none of its rows is in the combined dataset and  *)
(* an error is reported for the file, while the other files are loaded.    *)
(***************************************************************************)
C16_NoTimestampFileSkipped ==
    pcL = "done" =>
        \A f \in reads :
            ~uploaded_files[f].has_ts =>
                /\ f \in errors
                /\ \A j \in DOMAIN data_frames : data_frames[j].file # f

(***************************************************************************)
(* resample_data and the gap-filling step                                  *)
(*                                                                         *)
(* A frame is a sequence of rows [device, room, ts, val]: ts counts        *)
(* 10-minute ticks from a midnight, val is the value of the numeric column *)
(* (pandas resamples and fills every numeric column on its own, in the     *)
(* same way).  A device has one room (room_assignments), so a (device,     *)
(* room) group is a device; devices are numbered in the order of their     *)
(* names.                                                                  *)
(***************************************************************************)
\* Most rows of the loaded frame.
MaxRawRows == 3

Devices == {1, 2}

\* Lines 334-342 and 370: the room of a device, "Admiral" (1) of "Room 1" and
\* "Tick" (2) of "Room 2".
room_assignments == [dev \in Devices |-> dev]

TickVals == {0, 1, 7, 20}

ReadingVals == {NaN, Int2F(10), Int2F(40)}

Freqs == {"10T", "30T", "1H", "1D"}

\* The bucket width of a frequency in 10-minute ticks.
Width(freq) ==
    CASE freq = "10T" -> 1
      [] freq = "30T" -> 3
      [] freq = "1H"  -> 6
      [] freq = "1D"  -> 144

Cells == Devices \X TickVals

CellKey(c) == c[1] * 1000 + c[2]

\* The frame holding reading v[c] for every cell c of C: one block of rows per
\* device (file), in time order.
RECURSIVE FrameOf(_, _)
FrameOf(C, v) ==
    IF C = {} THEN <<>>
    ELSE LET c == CHOOSE a \in C : \A b \in C : CellKey(a) <= CellKey(b)
         IN  <<[device |-> c[1], room |-> room_assignments[c[1]],
                ts |-> c[2], val |-> v[c]]>>
             \o FrameOf(C \ {c}, v)

RawFrames ==
    UNION {{FrameOf(C, v) : v \in [C -> ReadingVals]} :
           C \in {D \in SUBSET Cells : Cardinality(D) \in 1..MaxRawRows}}

DevicesOf(frame) == {frame[j].device : j \in DOMAIN frame}

RowsOf(frame, dev) == {j \in DOMAIN frame : frame[j].device = dev}

\* The (device, room) group of a row key (line 437).
GroupOf(frame, dev, rm) ==
    {j \in DOMAIN frame : frame[j].device = dev /\ frame[j].room = rm}

\* The room of the group of a device.
GroupRoom(frame, dev) == frame[CHOOSE j \in RowsOf(frame, dev) : TRUE].room

ResampleGroupAllDevices(frame, dev, w) ==
    LET R  == GroupOf(frame, dev, GroupRoom(frame, dev))
        lo == CHOOSE b \in {frame[j].ts \div w : j \in R} :
                  \A j \in R : b <= frame[j].ts \div w
        hi == CHOOSE b \in {frame[j].ts \div w : j \in R} :
                  \A j \in R : b >= frame[j].ts \div w
        In(b) == {j \in DOMAIN frame :
                     frame[j].ts \div w = b /\ ~IsNaN(frame[j].val)}
    IN  [n \in 1..(hi - lo + 1) |->
            LET b == lo + n - 1
            IN  [device |-> dev, room |-> GroupRoom(frame, dev), ts |-> b * w,
                 val |-> IF In(b) = {} THEN NaN
                         ELSE FDiv(FSum([j \in DOMAIN frame |-> frame[j].val], In(b)),
                                   Int2F(Cardinality(In(b))))]]

\* Lines 438-441 for one group: sort by timestamp, then one row per bucket of
\* width w from the bucket of the first timestamp to the bucket of the last,
\* holding the mean of the non-missing values of the group that fall in it
\* (NaN if none), with the device and the room of the group.
ResampleGroup(frame, dev, w) ==
    LET R  == GroupOf(frame, dev, GroupRoom(frame, dev))
        lo == CHOOSE b \in {frame[j].ts \div w : j \in R} :
                  \A j \in R : b <= frame[j].ts \div w
        hi == CHOOSE b \in {frame[j].ts \div w : j \in R} :
                  \A j \in R : b >= frame[j].ts \div w
        In(b) == {j \in R : frame[j].ts \div w = b /\ ~IsNaN(frame[j].val)}
    IN  [n \in 1..(hi - lo + 1) |->
            LET b == lo + n - 1
            IN  [device |-> dev, room |-> GroupRoom(frame, dev), ts |-> b * w,
                 val |-> IF In(b) = {} THEN NaN
                         ELSE FDiv(FSum([j \in DOMAIN frame |-> frame[j].val], In(b)),
                                   Int2F(Cardinality(In(b))))]]

\* Lines 437-443: the groups in the order of their keys, concatenated.
RECURSIVE ConcatGroups(_, _, _)
ConcatGroups(frame, D, w) ==
    IF D = {} THEN <<>>
    ELSE LET d == CHOOSE a \in D : \A b \in D : a <= b
         IN  ResampleGroup(frame, d, w) \o ConcatGroups(frame, D \ {d}, w)

\* resample_data(df, freq), lines 431-443.
ResampleData(frame, freq) ==
    IF freq = "10T" THEN frame
    ELSE ConcatGroups(frame, DevicesOf(frame), Width(freq))

\* DataFrame.interpolate() on a column: linear in the row position between
\* the nearest values before and after; rows after the last value take it;
\* rows before the first value stay missing.
Interpolate(col) ==
    LET V == Valid(col)
    IN  [j \in DOMAIN col |->
            IF j \in V THEN col[j]
            ELSE LET Before == {p \in V : p < j}
                     After  == {q \in V : q > j}
                 IN  IF Before = {} THEN NaN
                     ELSE LET p == CHOOSE a \in Before : \A b \in Before : a >= b
                          IN  IF After = {} THEN col[p]
                              ELSE LET q == CHOOSE a \in After : \A b \in After : a <= b
                                   IN  FAdd(col[p],
                                            FDiv(FMul(FSub(col[q], col[p]),
                                                      Int2F(j - p)),
                                                 Int2F(q - p)))]

\* ffill(): a missing row takes the last value before it.
FFill(col) ==
    LET V == Valid(col)
    IN  [j \in DOMAIN col |->
            IF j \in V THEN col[j]
            ELSE LET Before == {p \in V : p < j}
                 IN  IF Before = {} THEN NaN
                     ELSE col[CHOOSE a \in Before : \A b \in Before : a >= b]]

BFillNone(col) == col

\* bfill(): a missing row takes the first value after it.
BFill(col) ==
    LET V == Valid(col)
    IN  [j \in DOMAIN col |->
            IF j \in V THEN col[j]
            ELSE LET After == {q \in V : q > j}
                 IN  IF After = {} THEN NaN
                     ELSE col[CHOOSE a \in After : \A b \in After : a <= b]]

\* Line 710: data[numeric_cols].interpolate().ffill().bfill(), over the whole
\* frame in row order.
GapFill(frame) ==
    LET col == BFill(FFill(Interpolate([j \in DOMAIN frame |-> frame[j].val])))
    IN  [j \in DOMAIN frame |-> [frame[j] EXCEPT !.val = col[j]]]

RaisesIfAllBad(frame, bad) == bad = DOMAIN frame

\* Line 685: pd.to_datetime(data["timestamp"], format="%d.%m.%Y %H:%M:%S")
\* raises when a value does not match the format.
ConversionRaises(frame, bad) == bad # {}

\* The loaded frame, with no, one or all of its timestamps in another format.
InitP ==
    /\ raw \in RawFrames
    /\ selected_freq \in Freqs
    /\ resampled = <<>>
    /\ data = raw
    /\ pcP = "convert"
    /\ ts_bad \in {{}, DOMAIN raw} \cup {{j} : j \in DOMAIN raw}
    /\ conv_error = FALSE
    /\ IdleT
    /\ IdleL
    /\ IdleC
    /\ IdleI

\* Lines 684-688: the conversion of the timestamp column; on an exception an
\* error is reported and st.stop() ends the run of the script.
Convert ==
    /\ pcP = "convert"
    /\ IF ConversionRaises(data, ts_bad)
       THEN conv_error' = TRUE /\ pcP' = "stopped"
       ELSE conv_error' = FALSE /\ pcP' = "resample"
    /\ UNCHANGED <<raw, selected_freq, resampled, data, ts_bad, othersP>>

\* Line 706: data = resample_data(data, selected_freq).
Resample ==
    /\ pcP = "resample"
    /\ resampled' = ResampleData(data, selected_freq)
    /\ data' = resampled'
    /\ pcP' = "fill"
    /\ UNCHANGED <<raw, selected_freq, ts_bad, conv_error, othersP>>

\* Lines 709-710.
Fill ==
    /\ pcP = "fill"
    /\ data' = GapFill(data)
    /\ pcP' = "done"
    /\ UNCHANGED <<raw, selected_freq, resampled, ts_bad, conv_error, othersP>>

NextP == Convert \/ Resample \/ Fill

SpecPrep == InitP /\ [][NextP]_vars

HasValue(frame, dev) == \E j \in RowsOf(frame, dev) : ~IsNaN(frame[j].val)

(***************************************************************************)
(* C7: for a frequency coarser than the raw 10 minutes resample_data       *)
(* returns, for each device, at most as many rows as the device has raw    *)
(* rows, also when the readings have gaps longer than the bucket width.    *)
(***************************************************************************)
C7_ResampleNeverAddsRows ==
    (pcP \in {"fill", "done"} /\ selected_freq # "10T") =>
        \A dev \in Devices :
            Cardinality(RowsOf(resampled, dev)) <= Cardinality(RowsOf(raw, dev))

(***************************************************************************)
(* C8: after interpolate, forward-fill and backward-fill, a device that    *)
(* had at least one non-missing value in the column before filling has no  *)
(* missing value in any of its rows.                                       *)
(***************************************************************************)
C8_GapFillComplete ==
    pcP = "done" =>
        \A dev \in Devices :
            HasValue(resampled, dev) =>
                \A j \in RowsOf(data, dev) : ~IsNaN(data[j].val)

\* A device went into the fill with a value and with missing rows before and
\* after values, and the fill has run.
C8_Witness_FilledLeadingAndInner ==
    /\ pcP = "done"
    /\ \E dev \in Devices :
         \E a, b, c \in RowsOf(resampled, dev) :
            /\ a < b /\ b < c
            /\ IsNaN(resampled[a].val)
            /\ ~IsNaN(resampled[b].val)
            /\ \A j \in RowsOf(resampled, dev) : j >= a
            /\ IsNaN(resampled[c].val)

(***************************************************************************)
(* C17: if any timestamp of the combined dataset does not match the        *)
(* day.month.year hour:minute:second format, the load is fatal for the     *)
(* whole dataset: an error is reported and no later stage of the pipeline  *)
(* (resampling, gap-filling and everything after them) runs in that cycle. *)
(***************************************************************************)
C17_BadTimestampIsFatal ==
    (ts_bad # {} /\ pcP # "convert") =>
        /\ conv_error
        /\ pcP = "stopped"
        /\ resampled = <<>>
        /\ data = raw

\* The run stopped on a dataset with one timestamp in another format among
\* timestamps in the right format.
C17_Witness_OneBadTimestamp ==
    /\ pcP = "stopped"
    /\ conv_error
    /\ Cardinality(ts_bad) = 1
    /\ Len(raw) >= 2

(***************************************************************************)
(* C21: gap-filling is per device: a device with zero valid samples in a   *)
(* numeric column still has only missing values in that column after       *)
(* gap-filling, whatever values other devices hold in the same column.     *)
(* Line 710 fills the column over the whole frame, so the rows of such a   *)
(* device take the values of the device next to it in the frame.           *)
(***************************************************************************)
C21_GapFillPerDevice ==
    pcP = "done" =>
        \A dev \in Devices :
            ~HasValue(resampled, dev) =>
                \A j \in RowsOf(data, dev) : IsNaN(data[j].val)

\* The raw rows of the group of a resampled row r that hold a value and fall
\* in the bucket of r.
BucketRows(r) ==
    {q \in DOMAIN raw :
        /\ raw[q].device = r.device
        /\ raw[q].room = r.room
        /\ raw[q].ts \div Width(selected_freq) = r.ts \div Width(selected_freq)
        /\ ~IsNaN(raw[q].val)}

(***************************************************************************)
(* C26: before gap-filling, each row produced by resample_data for a       *)
(* non-raw frequency holds the arithmetic mean of the non-missing raw      *)
(* values of the same (device, room) group whose timestamps fall in the    *)
(* row's time bucket (missing when the bucket has none), and carries that  *)
(* group's device and room; no raw value of one device contributes to a    *)
(* row of another device.                                                  *)
(***************************************************************************)
C26_BucketMeanPerGroup ==
    (pcP \in {"fill", "done"} /\ selected_freq # "10T") =>
        \A j \in DOMAIN resampled :
            LET r == resampled[j]
                S == BucketRows(r)
            IN  /\ r.device \in DevicesOf(raw)
                /\ r.room = room_assignments[r.device]
                /\ r.ts % Width(selected_freq) = 0
                /\ IF S = {} THEN IsNaN(r.val)
                   ELSE /\ IsNum(r.val)
                        /\ FMul(r.val, Int2F(Cardinality(S)))
                               = FSum([q \in DOMAIN raw |-> raw[q].val], S)

\* A resampled row holds the mean 25 of the two readings 10 and 40 of its
\* device, while the other device has another reading in the same bucket.
C26_Witness_MeanOfTwoBesideOtherDevice ==
    /\ pcP \in {"fill", "done"}
    /\ selected_freq # "10T"
    /\ \E j \in DOMAIN resampled :
          /\ resampled[j].val = Int2F(25)
          /\ Cardinality(BucketRows(resampled[j])) = 2
          /\ \E q \in DOMAIN raw :
                /\ raw[q].device # resampled[j].device
                /\ raw[q].ts \div Width(selected_freq)
                       = resampled[j].ts \div Width(selected_freq)
                /\ IsNum(raw[q].val)
                /\ raw[q].val # Int2F(25)

(***************************************************************************)
(* The climate model: build_seasonal_models, the seasonal averages and     *)
(* predict_for_room                                                        *)
(*                                                                         *)
(* A row of the frame is [room, date, hum, temp]: hum and temp are the     *)
(* row means of the humidity and of the temperature columns.  Rooms are    *)
(* numbered.  A fitted coefficient vector is kept symbolic:                *)
(* [room, var, finite], finite = FALSE for NaN coefficients.               *)
(***************************************************************************)
\* Most rows of the frame the climate model is built from.
MaxClimRows == 2

Rooms == {1, 2}

Date(yy, mm, dd) == [y |-> yy, m |-> mm, d |-> dd]

\* The dates of the rows: 1 March 2023 and 29 February 2024 share day 60;
\* 31 December 2024 is the last day of a leap year.
DateVals == {Date(2023, 3, 1), Date(2024, 2, 29), Date(2024, 12, 31)}

\* The dates a prediction is asked for: days 60, 365 and 366.
PredictDates == {Date(2024, 2, 29), Date(2023, 12, 31), Date(2024, 12, 31)}

HumVals == {NaN, Int2F(40), Int2F(60)}

TempVals == {NaN, Int2F(20)}

IsLeap(yy) == (yy % 4 = 0 /\ yy % 100 # 0) \/ yy % 400 = 0

DaysBefore == <<0, 31, 59, 90, 120, 151, 181, 212, 243, 273, 304, 334>>

\* Timestamp.dayofyear: the ordinal day of the date in its year, 366 for
\* 31 December of a leap year.
DayOfYear(dt) ==
    DaysBefore[dt.m] + dt.d + (IF IsLeap(dt.y) /\ dt.m > 2 THEN 1 ELSE 0)

\* Line 759: pd.RangeIndex(1, 366).
FullIndex == 1..365

ClimCells == Rooms \X DateVals

ClimKey(c) == (c[1] * 10000 + c[2].y) * 1000 + DayOfYear(c[2])

\* One row per cell of C.  The models and the averages do not depend on the
\* order of the rows, which are taken in one canonical order.
RECURSIVE ClimFrameOf(_, _)
ClimFrameOf(C, v) ==
    IF C = {} THEN <<>>
    ELSE LET c == CHOOSE a \in C : \A b \in C : ClimKey(a) <= ClimKey(b)
         IN  <<[room |-> c[1], date |-> c[2], hum |-> v[c][1], temp |-> v[c][2]]>>
             \o ClimFrameOf(C \ {c}, v)

\* Lines 709-710 leave a numeric column of the frame either without a missing
\* value or without any value.
Filled(frame) ==
    /\ \A a, b \in DOMAIN frame : IsNaN(frame[a].hum) = IsNaN(frame[b].hum)
    /\ \A a, b \in DOMAIN frame : IsNaN(frame[a].temp) = IsNaN(frame[b].temp)

\* The frames of a dataset with (hc # <<>>) or without humidity columns, and
\* with or without temperature columns; an absent column has no values.
ClimFrames(hc, tc) ==
    {f \in UNION {{ClimFrameOf(C, v) :
                     v \in [C -> (IF hc # <<>> THEN HumVals ELSE {NaN})
                                 \X (IF tc # <<>> THEN TempVals ELSE {NaN})]} :
                  C \in {D \in SUBSET ClimCells :
                           Cardinality(D) \in 1..MaxClimRows}} :
        Filled(f)}

RoomsOf(frame) == {frame[j].room : j \in DOMAIN frame}

RoomRows(frame, rm) == {j \in DOMAIN frame : frame[j].room = rm}

\* The target values y_h (var = "humidity") or y_t of a room, by row.
Target(frame, var) ==
    [j \in DOMAIN frame |-> IF var = "humidity" THEN frame[j].hum ELSE frame[j].temp]

FiniteCount(frame, rm, var) ==
    Cardinality({j \in RoomRows(frame, rm) : ~IsNaN(Target(frame, var)[j])})

\* Lines 532 and 537: len(y) > 0, the only condition on the fit.
FitsModel(frame, rm, var) == Cardinality(RoomRows(frame, rm)) > 0

\* Lines 525-539 with every np.linalg.lstsq returning.  lstsq on a target
\* holding NaN, when it returns, returns NaN coefficients.
FittedModels(frame, hc, tc) ==
    [rm \in RoomsOf(frame) |->
        [var \in {v \in {"humidity", "temperature"} :
                    /\ (IF v = "humidity" THEN hc ELSE tc) # <<>>
                    /\ FitsModel(frame, rm, v)} |->
            [room |-> rm, var |-> var,
             finite |-> FiniteCount(frame, rm, var)
                          = Cardinality(RoomRows(frame, rm))]]]

\* np.linalg.lstsq on a target holding NaN may also raise LinAlgError (the
\* SVD does not converge).
LstsqMayRaise(frame, hc, tc) ==
    \E rm \in RoomsOf(frame) :
        \E var \in DOMAIN FittedModels(frame, hc, tc)[rm] :
            ~FittedModels(frame, hc, tc)[rm][var].finite

\* Lines 745-747 and 756: the mean, per day of year of the room's rows, of
\* the row averages (missing values skipped).
DailyStat(frame, doys, rm, var, dy) ==
    LET R == {j \in RoomRows(frame, rm) :
                doys[j] = dy /\ ~IsNaN(Target(frame, var)[j])}
    IN  IF R = {} THEN NaN
        ELSE FDiv(FSum(Target(frame, var), R), Int2F(Cardinality(R)))

\* Lines 759-761: reindex to 1..365, then interpolate().ffill().bfill().
FilledStats(frame, doys, rm, var) ==
    BFill(FFill(Interpolate([dy \in FullIndex |->
                                DailyStat(frame, doys, rm, var, dy)])))

\* Lines 749-762.
SeasonalAvgs(frame, doys, hc, tc) ==
    [rm \in RoomsOf(frame) |->
        [col \in {c \in {"hum_avg", "temp_avg"} :
                    (IF c = "hum_avg" THEN hc ELSE tc) # <<>>} |->
            FilledStats(frame, doys, rm,
                        IF col = "hum_avg" THEN "humidity" ELSE "temperature")]]

\* coeffs[0] * sin_val + coeffs[1] * cos_val + coeffs[2]
Regression(coeffs, doy) ==
    IF coeffs.finite
    THEN [k |-> "reg", n |-> doy,
          d |-> 2 * coeffs.room + (IF coeffs.var = "humidity" THEN 0 ELSE 1)]
    ELSE NaN

AvgLookupOrZero(rm, doy, avgs, col) ==
    IF rm \in DOMAIN avgs /\ doy \in FullIndex /\ col \in DOMAIN avgs[rm]
    THEN avgs[rm][col][doy]
    ELSE Int2F(0)

\* Lines 584-590 for one variable: the seasonal average, NaN when the room,
\* the day or the column is not in the table.
AvgLookup(rm, doy, avgs, col) ==
    IF rm \in DOMAIN avgs /\ doy \in FullIndex /\ col \in DOMAIN avgs[rm]
    THEN avgs[rm][col][doy]
    ELSE NaN

PredictVarModelFirst(rm, doy, mdl, avgs, var) ==
    IF rm \in DOMAIN mdl /\ var \in DOMAIN mdl[rm]
    THEN Regression(mdl[rm][var], doy)
    ELSE AvgLookup(rm, doy, avgs, IF var = "humidity" THEN "hum_avg" ELSE "temp_avg")

\* Lines 581-600 for one variable.
PredictVar(rm, doy, mdl, avgs, var) ==
    LET avg == AvgLookup(rm, doy, avgs,
                         IF var = "humidity" THEN "hum_avg" ELSE "temp_avg")
    IN  IF IsNaN(avg) /\ rm \in DOMAIN mdl /\ var \in DOMAIN mdl[rm]
        THEN Regression(mdl[rm][var], doy)
        ELSE avg

\* The sensor columns a dataset may hold that the climate model looks at: the
\* atmosphere sensors and a soil-probe temperature.
ClimColumns == <<"Atmosphere humidity (% RH)", "Atmosphere temperature (C)",
                 "SMT temperature 1 (C)">>

\* The words of the lowercased column name that the discovery looks for.
NameWords(c) ==
    CASE c = "Atmosphere humidity (% RH)"  -> {"atmosphere", "humidity"}
      [] c = "Atmosphere temperature (C)"  -> {"atmosphere", "temperature"}
      [] c = "SMT temperature 1 (C)"       -> {"temperature"}

\* data.columns: the columns of ClimColumns the uploaded files hold, in the
\* order of the files.
ColumnLists ==
    {SelectSeq(ClimColumns, LAMBDA c : c \in S) :
        S \in SUBSET {ClimColumns[j] : j \in DOMAIN ClimColumns}}

\* Lines 721-722: the columns whose lowercased name contains the word.
ColsContaining(cols, word) == SelectSeq(cols, LAMBDA c : word \in NameWords(c))

DateKey(dt) == (dt.y * 100 + dt.m) * 100 + dt.d

\* Line 804: data["timestamp"].min() and .max(), the default date range.
MinDate(frame) ==
    frame[CHOOSE a \in DOMAIN frame :
            \A b \in DOMAIN frame : DateKey(frame[a].date) <= DateKey(frame[b].date)].date

MaxDate(frame) ==
    frame[CHOOSE a \in DOMAIN frame :
            \A b \in DOMAIN frame : DateKey(frame[a].date) >= DateKey(frame[b].date)].date

\* data["device"] of a row: in the modelled datasets a room holds one device
\* (room_assignments, line 370).
DeviceOfRoom(rm) == CHOOSE dev \in Devices : room_assignments[dev] = rm

\* Lines 814-819: the rows whose room and device are selected and whose
\* timestamp (midnight of the row's date) lies in the date range.
FilteredData(frame, rooms, devices, from, to) ==
    SelectSeq(frame, LAMBDA r : /\ r.room \in rooms
                                /\ DeviceOfRoom(r.room) \in devices
                                /\ DateKey(r.date) >= DateKey(from)
                                /\ DateKey(r.date) <= DateKey(to))

\* The defaults of the filter widgets (lines 774-780 and 804): all rooms, all
\* devices, the whole date range of the dataset.
DefaultSelection(frame) ==
    [rooms   |-> RoomsOf(frame),
     devices |-> {DeviceOfRoom(rm) : rm \in RoomsOf(frame)},
     from    |-> MinDate(frame),
     to      |-> MaxDate(frame)]

\* The selections of the interaction cycles: the defaults, and the defaults
\* with room 1 only, with device 2 only, from 1 January 2024 on, or up to
\* 31 December 2023.
Selections(frame) ==
    {DefaultSelection(frame),
     [DefaultSelection(frame) EXCEPT !.rooms = {1}],
     [DefaultSelection(frame) EXCEPT !.devices = {2}],
     [DefaultSelection(frame) EXCEPT !.from = Date(2024, 1, 1)],
     [DefaultSelection(frame) EXCEPT !.to = Date(2023, 12, 31)]}

\* The filter widgets hold the selection sel.
Selected(sel) ==
    /\ selected_rooms = sel.rooms
    /\ selected_devices = sel.devices
    /\ start_date = sel.from
    /\ end_date = sel.to

\* The state of a run of the script before the column discovery, for the
\* dataset and the widget selections of the run.
StartC ==
    /\ humidity_cols_model = <<>>
    /\ temperature_cols_model = <<>>
    /\ dayofyear_col = <<>>
    /\ models = <<>>
    /\ seasonal_avgs = <<>>
    /\ room = 0
    /\ date = Date(0, 0, 0)
    /\ dayofyear = 0
    /\ humidity_pred = NaN
    /\ temperature_pred = NaN
    /\ yearly_preds = <<>>
    /\ filtered_data = <<>>
    /\ pcC = "discover"
    /\ IdleT
    /\ IdleL
    /\ IdleP
    /\ IdleI

\* A run with the filter widgets at their defaults (lines 774-780 and 804):
\* all rooms, all devices, the whole date range.
InitC ==
    /\ columns \in ColumnLists
    /\ df \in ClimFrames(ColsContaining(columns, "humidity"),
                          ColsContaining(columns, "temperature"))
    /\ Selected(DefaultSelection(df))
    /\ StartC

\* A run on a dataset with all the sensor columns, the filter widgets set to
\* one of the selections.
InitCycle ==
    /\ columns = ClimColumns
    /\ df \in ClimFrames(ColsContaining(columns, "humidity"),
                          ColsContaining(columns, "temperature"))
    /\ \E sel \in Selections(df) : Selected(sel)
    /\ StartC

\* Lines 720-722: the humidity and the temperature columns of the climate
\* model, found by name.
Discover ==
    /\ pcC = "discover"
    /\ humidity_cols_model' = ColsContaining(columns, "humidity")
    /\ temperature_cols_model' = ColsContaining(columns, "temperature")
    /\ pcC' = "models"
    /\ UNCHANGED <<columns, df, dayofyear_col, models, seasonal_avgs, room, date,
                   dayofyear, humidity_pred, temperature_pred, yearly_preds,
                   filterC, othersC>>

ModelFrameFiltered(frame, filtered) == filtered

\* Lines 730 and 741: build_seasonal_models and the seasonal averages are
\* handed data, the frame before the filter of lines 814-819.
ModelFrame(frame, filtered) == frame

\* The frame the models and the averages of this run are built from.
ModelData ==
    ModelFrame(df, FilteredData(df, selected_rooms, selected_devices,
                                start_date, end_date))

\* Lines 728-730: models = build_seasonal_models(...) when a humidity or a
\* temperature column was found.
BuildModels ==
    /\ pcC = "models"
    /\ dayofyear_col' = [j \in DOMAIN ModelData |-> DayOfYear(ModelData[j].date)]
    /\ IF humidity_cols_model # <<>> \/ temperature_cols_model # <<>>
       THEN \/ /\ models' = FittedModels(ModelData, humidity_cols_model,
                                         temperature_cols_model)
               /\ pcC' = "avgs"
            \/ /\ LstsqMayRaise(ModelData, humidity_cols_model,
                                 temperature_cols_model)
               /\ models' = models
               /\ pcC' = "raised"
       ELSE /\ models' = models
            /\ pcC' = "avgs"
    /\ UNCHANGED <<columns, df, humidity_cols_model, temperature_cols_model,
                   seasonal_avgs, room, date, dayofyear, humidity_pred,
                   temperature_pred, yearly_preds, filterC, othersC>>

\* Lines 739-762.
BuildAvgs ==
    /\ pcC = "avgs"
    /\ seasonal_avgs' =
         IF humidity_cols_model # <<>> \/ temperature_cols_model # <<>>
         THEN SeasonalAvgs(ModelData, dayofyear_col, humidity_cols_model,
                           temperature_cols_model)
         ELSE seasonal_avgs
    /\ pcC' = "filter"
    /\ UNCHANGED <<columns, df, humidity_cols_model, temperature_cols_model,
                   dayofyear_col, models, room, date, dayofyear, humidity_pred,
                   temperature_pred, yearly_preds, filterC, othersC>>

\* Lines 802-823: the date range and the filter.  A start date after the end
\* date, or a filter that keeps no row, ends the run with st.stop().
Filter ==
    /\ pcC = "filter"
    /\ IF DateKey(start_date) > DateKey(end_date)
       THEN filtered_data' = filtered_data /\ pcC' = "stopped"
       ELSE /\ filtered_data' = FilteredData(df, selected_rooms, selected_devices,
                                             start_date, end_date)
            /\ pcC' = IF filtered_data' = <<>> THEN "stopped" ELSE "ready"
    /\ UNCHANGED <<columns, df, humidity_cols_model, temperature_cols_model,
                   dayofyear_col, models, seasonal_avgs, room, date, dayofyear,
                   humidity_pred, temperature_pred, yearly_preds,
                   selected_rooms, selected_devices, start_date, end_date,
                   othersC>>

YearVarAverageOnly(rm, idx, mdl, avgs, var) ==
    AvgLookup(rm, idx, avgs, IF var = "humidity" THEN "hum_avg" ELSE "temp_avg")

\* Line 630: days = np.arange(1, 366).
days == [j \in 1..365 |-> j]

\* Lines 637-648 for row idx of the frame and one variable.
YearVar(rm, idx, mdl, avgs, var) ==
    LET doy     == days[idx]
        use_avg == rm \in DOMAIN avgs /\ doy \in FullIndex
        col     == IF var = "humidity" THEN "hum_avg" ELSE "temp_avg"
        val     == IF use_avg /\ col \in DOMAIN avgs[rm]
                   THEN avgs[rm][col][doy]
                   ELSE NaN
    IN  IF IsNaN(val) /\ rm \in DOMAIN mdl /\ var \in DOMAIN mdl[rm]
        THEN Regression(mdl[rm][var], days[idx])
        ELSE val

\* get_predictions_over_year(room, models, seasonal_avgs), lines 630-650.
GetPredictionsOverYear(rm, mdl, avgs) ==
    [dayofyear   |-> days,
     humidity    |-> [idx \in DOMAIN days |-> YearVar(rm, idx, mdl, avgs, "humidity")],
     temperature |-> [idx \in DOMAIN days |-> YearVar(rm, idx, mdl, avgs, "temperature")]]

\* predict_for_room(room, date, models, seasonal_avgs), lines 580-601, for
\* the room and the date chosen in this run of the script, and
\* get_predictions_over_year for the same room (lines 1078-1092).
Predict ==
    /\ pcC = "ready"
    /\ \E rm \in Rooms, dt \in PredictDates :
        /\ room' = rm
        /\ date' = dt
        /\ dayofyear' = DayOfYear(dt)
        /\ humidity_pred' = PredictVar(rm, dayofyear', models, seasonal_avgs,
                                       "humidity")
        /\ temperature_pred' = PredictVar(rm, dayofyear', models, seasonal_avgs,
                                          "temperature")
        /\ yearly_preds' = GetPredictionsOverYear(rm, models, seasonal_avgs)
    /\ pcC' = "done"
    /\ UNCHANGED <<columns, df, humidity_cols_model, temperature_cols_model,
                   dayofyear_col, models, seasonal_avgs, filterC, othersC>>

NextC == Discover \/ BuildModels \/ BuildAvgs \/ Filter \/ Predict

SpecClimate == InitC /\ [][NextC]_vars

\* The interaction cycles of a dataset: the same script with other selections.
SpecCycle == InitCycle /\ [][NextC]_vars

\* The value the seasonal-average table of the room of the last call holds
\* for the day of the call; defined only under InTable.
InTable(col) ==
    /\ room \in DOMAIN seasonal_avgs
    /\ col \in DOMAIN seasonal_avgs[room]
    /\ dayofyear \in DOMAIN seasonal_avgs[room][col]

TableValue(col) == seasonal_avgs[room][col][dayofyear]

(***************************************************************************)
(* C2: when the seasonal-average table of the room holds a defined value   *)
(* for the date's day of year and the variable, predict_for_room returns   *)
(* exactly that value, whatever model exists for the room; a regression    *)
(* value is returned only for a variable whose average is absent or NaN.   *)
(***************************************************************************)
C2_AverageBeforeRegression ==
    pcC = "done" =>
        /\ (InTable("hum_avg") /\ ~IsNaN(TableValue("hum_avg")))
              => humidity_pred = TableValue("hum_avg")
        /\ (InTable("temp_avg") /\ ~IsNaN(TableValue("temp_avg")))
              => temperature_pred = TableValue("temp_avg")
        /\ humidity_pred.k = "reg"
              => (~InTable("hum_avg") \/ IsNaN(TableValue("hum_avg")))
        /\ temperature_pred.k = "reg"
              => (~InTable("temp_avg") \/ IsNaN(TableValue("temp_avg")))

\* A call returned the average over two years of day 60, for a room that also
\* has a finite humidity model.
C2_Witness_AverageWithModel ==
    /\ pcC = "done"
    /\ InTable("hum_avg")
    /\ humidity_pred = Num(50, 1)
    /\ room \in DOMAIN models
    /\ "humidity" \in DOMAIN models[room]
    /\ models[room]["humidity"].finite

(***************************************************************************)
(* C3: build_seasonal_models produces no humidity (temperature) model for  *)
(* a room with fewer than 6 finite humidity (temperature) target values.   *)
(***************************************************************************)
C3_NoModelBelowSixValues ==
    pcC \in {"avgs", "ready", "done"} =>
        \A rm \in DOMAIN models :
            \A var \in {"humidity", "temperature"} :
                FiniteCount(df, rm, var) < 6 => var \notin DOMAIN models[rm]

(***************************************************************************)
(* C4: a room with at least one historical reading of a variable has a     *)
(* defined seasonal average of that variable for every day 1..365,         *)
(* whatever days the readings fall on.                                     *)
(***************************************************************************)
C4_SeasonalAverageComplete ==
    pcC \in {"ready", "done"} =>
        \A rm \in DOMAIN seasonal_avgs :
            /\ ("hum_avg" \in DOMAIN seasonal_avgs[rm]
                  /\ FiniteCount(df, rm, "humidity") >= 1)
                 => \A dy \in 1..365 : ~IsNaN(seasonal_avgs[rm]["hum_avg"][dy])
            /\ ("temp_avg" \in DOMAIN seasonal_avgs[rm]
                  /\ FiniteCount(df, rm, "temperature") >= 1)
                 => \A dy \in 1..365 : ~IsNaN(seasonal_avgs[rm]["temp_avg"][dy])

(***************************************************************************)
(* C5: every day-of-year index computed from a timestamp of the frame or   *)
(* from a prediction date lies in 1..365, so the day of year of a          *)
(* prediction date is always a key of the seasonal-average index.          *)
(***************************************************************************)
C5_DayOfYearWithin365 ==
    /\ \A j \in DOMAIN dayofyear_col : dayofyear_col[j] \in 1..365
    /\ pcC = "done" => dayofyear \in 1..365
    /\ (pcC = "done" /\ room \in DOMAIN seasonal_avgs
          /\ "hum_avg" \in DOMAIN seasonal_avgs[room])
         => dayofyear \in DOMAIN seasonal_avgs[room]["hum_avg"]

(***************************************************************************)
(* C13: column discovery for the climate model is two-tier: when a column  *)
(* name contains both 'atmosphere' and 'humidity' (resp. 'temperature'),   *)
(* only such columns are humidity (resp. temperature) inputs; columns that *)
(* merely contain 'humidity' (resp. 'temperature') are used only when no   *)
(* atmosphere column of that kind exists.                                  *)
(***************************************************************************)
C13_AtmosphereColumnsOnly ==
    pcC \notin {"idle", "discover"} =>
        \A word \in {"humidity", "temperature"} :
            LET found == IF word = "humidity" THEN humidity_cols_model
                         ELSE temperature_cols_model
                atmos == SelectSeq(columns,
                                   LAMBDA c : {"atmosphere", word} \subseteq NameWords(c))
                any   == SelectSeq(columns, LAMBDA c : word \in NameWords(c))
            IN  found = (IF atmos # <<>> THEN atmos ELSE any)

\* No defined seasonal average of the column for room rm on day dy, and no
\* model of the variable for the room.
Unavailable(rm, dy, var) ==
    LET col == IF var = "humidity" THEN "hum_avg" ELSE "temp_avg"
    IN  /\ ~(/\ rm \in DOMAIN seasonal_avgs
             /\ col \in DOMAIN seasonal_avgs[rm]
             /\ dy \in DOMAIN seasonal_avgs[rm][col]
             /\ ~IsNaN(seasonal_avgs[rm][col][dy]))
        /\ ~(rm \in DOMAIN models /\ var \in DOMAIN models[rm])

(***************************************************************************)
(* C14: when the room has neither a defined seasonal average for the day   *)
(* of year nor a regression model for the variable (a room unknown to both *)
(* tables included), predict_for_room and get_predictions_over_year return *)
(* not-a-number for that variable, never 0 or another default, and the     *)
(* calls complete without an error.                                        *)
(***************************************************************************)
C14_UnavailableIsNaN ==
    pcC = "done" =>
        /\ Unavailable(room, dayofyear, "humidity") => IsNaN(humidity_pred)
        /\ Unavailable(room, dayofyear, "temperature") => IsNaN(temperature_pred)
        /\ \A idx \in DOMAIN yearly_preds.dayofyear :
              LET dy == yearly_preds.dayofyear[idx]
              IN  /\ Unavailable(room, dy, "humidity")
                        => IsNaN(yearly_preds.humidity[idx])
                  /\ Unavailable(room, dy, "temperature")
                        => IsNaN(yearly_preds.temperature[idx])

\* Both functions were called for a room that is in neither table.
C14_Witness_UnknownRoom ==
    /\ pcC = "done"
    /\ room \notin DOMAIN models
    /\ room \notin DOMAIN seasonal_avgs
    /\ DOMAIN models # {}
    /\ IsNaN(humidity_pred)
    /\ IsNaN(temperature_pred)
    /\ \A idx \in DOMAIN yearly_preds.humidity : IsNaN(yearly_preds.humidity[idx])

(***************************************************************************)
(* C18: get_predictions_over_year returns exactly 365 rows, one per day of *)
(* year 1..365 in increasing order, and the humidity and temperature of    *)
(* the row of day d equal what predict_for_room returns for any date whose *)
(* day of year is d (both not-a-number when unavailable).                  *)
(***************************************************************************)
C18_YearRowsMatchPredict ==
    pcC = "done" =>
        /\ DOMAIN yearly_preds.dayofyear = 1..365
        /\ DOMAIN yearly_preds.humidity = 1..365
        /\ DOMAIN yearly_preds.temperature = 1..365
        /\ \A idx \in 1..365 : yearly_preds.dayofyear[idx] = idx
        /\ dayofyear \in 1..365 =>
             /\ yearly_preds.humidity[dayofyear] = humidity_pred
             /\ yearly_preds.temperature[dayofyear] = temperature_pred

\* The prediction of a date within 1..365 came from the regression, and the
\* row of its day holds the same value.
C18_Witness_RegressionRow ==
    /\ pcC = "done"
    /\ dayofyear = 60
    /\ humidity_pred.k = "reg"
    /\ yearly_preds.humidity[60] = humidity_pred
    /\ yearly_preds.dayofyear[60] = 60

\* The models and the seasonal averages that the dataset of the run, frame
\* with the columns cols, determines (lines 720-762).
DatasetModels(frame, cols) ==
    FittedModels(frame, ColsContaining(cols, "humidity"),
                 ColsContaining(cols, "temperature"))

DatasetAvgs(frame, cols) ==
    SeasonalAvgs(frame, [j \in DOMAIN frame |-> DayOfYear(frame[j].date)],
                 ColsContaining(cols, "humidity"),
                 ColsContaining(cols, "temperature"))

(***************************************************************************)
(* C25: the seasonal models and the seasonal averages, and hence every     *)
(* climate prediction, depend only on the loaded dataset (and the          *)
(* resampling frequency that produced its frame): in every interaction     *)
(* cycle whose selected rooms, devices and date range leave a non-empty    *)
(* filtered dataset, the models and the averages with which the run comes  *)
(* to the climate tab are the ones the dataset determines, and the         *)
(* predictions for a room and a date are computed from these alone, so two *)
(* such cycles on the same dataset yield identical models, averages and    *)
(* predictions.                                                            *)
(***************************************************************************)
C25_ModelsIndependentOfSelection ==
    /\ pcC \in {"ready", "done"} => models = DatasetModels(df, columns)
    /\ pcC = "ready" => seasonal_avgs = DatasetAvgs(df, columns)
    /\ pcC = "done" =>
          /\ humidity_pred = PredictVar(room, DayOfYear(date), models,
                                        seasonal_avgs, "humidity")
          /\ temperature_pred = PredictVar(room, DayOfYear(date), models,
                                           seasonal_avgs, "temperature")
          /\ yearly_preds = GetPredictionsOverYear(room, models, seasonal_avgs)

\* A cycle whose filter kept room 1 only, of a dataset with readings of rooms
\* 1 and 2, predicted a humidity for room 2.
C25_Witness_PredictionForUnselectedRoom ==
    /\ pcC = "done"
    /\ RoomsOf(df) = {1, 2}
    /\ selected_rooms = {1}
    /\ RoomsOf(filtered_data) = {1}
    /\ room = 2
    /\ 2 \in DOMAIN models
    /\ IsNum(humidity_pred)

(***************************************************************************)
(* The Insights tab: the recommendation loop and the sensor-issue detector *)
(*                                                                         *)
(* summary_df has one row per device with the mean of every moisture and   *)
(* tension column.  The loops go through the rows one by one and no        *)
(* iteration reads what another one wrote: the model follows one row, any  *)
(* row dv of summary_df, through its iteration.                            *)
(***************************************************************************)
HOMOGENIZE == "Homogenize moisture content"

DETECT == "Detect sensor issues"

\* Line 987: water_per_percent = 0.67.
water_per_percent == Num(67, 100)

\* The rows of summary_df.
NumDevices == Cardinality(Devices)

\* Means of a moisture column (% VWC) and of a tension column (kPa) in the
\* rows the recommendation loop reads, the moisture targets of the number
\* inputs (0.0 to 100.0), and the derived tension targets (1500 is the target
\* of a tension column without a value).
RecMoistureVals == {NaN, Int2F(15), Int2F(29), Num(59, 2), Int2F(40)}

RecTensionVals == {NaN, Int2F(170), Int2F(300), Int2F(310)}

MoistureInputVals == {Int2F(30)}

TargetTensionVals == {Int2F(320), Int2F(1500)}

ColSet(cols) == {cols[j] : j \in DOMAIN cols}

FAbs(a) == IF IsNum(a) THEN Num(Abs(a.n), a.d) ELSE NaN

\* round(x, 2).  x stands for a binary float, so a value the model holds as
\* an exact tie between two hundredths goes up or down (up); NaN stays NaN.
Round2(x, up) ==
    IF ~IsNum(x) THEN x
    ELSE LET q   == (200 * x.n + x.d) \div (2 * x.d)
             tie == (200 * x.n + x.d) % (2 * x.d) = 0
         IN  Num(IF tie /\ ~up THEN q - 1 ELSE q, 100)

\* Line 984: dryness_score = moisture_diff + tension_diff / 10.0.
DrynessScore(moisture_diff, tension_diff) ==
    FAdd(moisture_diff, FDiv(tension_diff, Int2F(10)))

RecActionFromZero(dryness_score) ==
    IF FLe(Int2F(0), dryness_score) THEN "Add" ELSE "Remove"

\* Line 985: action = "Add" if dryness_score > 0 else "Remove".
RecAction(dryness_score) ==
    IF FLt(Int2F(0), dryness_score) THEN "Add" ELSE "Remove"

ChangeLitresSigned(moisture_diff, up) ==
    Round2(FMul(moisture_diff, water_per_percent), up)

\* Lines 987-990: round(abs(moisture_diff) * water_per_percent, 2).
ChangeLitres(moisture_diff, up) ==
    Round2(FMul(FAbs(moisture_diff), water_per_percent), up)

\* Lines 977-992 for one row of summary_df: the entry of device_rec for each
\* level i + 1.
DeviceRec(r, mcols, tcols, inputs, ttargets, up) ==
    [l \in 1..Len(mcols) |->
        LET m_col         == Sorted(mcols)[l]
            t_col         == Sorted(tcols)[l]
            moisture_diff == FSub(inputs[m_col], r.m[m_col])
            tension_diff  == FSub(r.t[t_col], ttargets[t_col])
        IN  [action |-> RecAction(DrynessScore(moisture_diff, tension_diff)),
             change |-> ChangeLitres(moisture_diff, up[l])]]

\* The Insights tab after summary_df was computed (lines 895-901) and, for
\* the homogenisation task, after derive_tension_targets and the display of
\* its targets came back without an error (lines 937-946), which takes as
\* many tension as moisture columns.
InitI ==
    /\ insight_task \in {HOMOGENIZE, DETECT}
    /\ moisture_cols \in ColLists
    /\ tension_cols \in ColLists
    /\ insight_task = HOMOGENIZE => Len(moisture_cols) = Len(tension_cols)
    /\ IF insight_task = HOMOGENIZE
       THEN /\ moisture_inputs \in [ColSet(moisture_cols) -> MoistureInputVals]
            /\ target_tension_values \in [ColSet(tension_cols) -> TargetTensionVals]
       ELSE /\ moisture_inputs = <<>>
            /\ target_tension_values = <<>>
    /\ dv = 0
    /\ row = <<>>
    /\ device_rec = <<>>
    /\ alerts = <<>>
    /\ n_alerts = 0
    /\ shown = "none"
    /\ pcI = "loop"
    /\ moisture_targets = <<>>
    /\ i = 0
    /\ mask_sum = 0
    /\ y_notna = 0
    /\ slope = NaN
    /\ intercept = NaN
    /\ predicted = NaN
    /\ targets = <<>>
    /\ pcT = "idle"
    /\ errT = "none"
    /\ IdleL
    /\ IdleP
    /\ IdleC

\* The tension means a row of summary_df may hold beside the derived targets:
\* lines 709-710 fill a column over the whole frame, so a tension column has
\* a mean in every row, or it holds no value at all, its mean is missing in
\* every row and its derived target is 1500.
RowTensions(tcols, ttargets) ==
    {rt \in [ColSet(tcols) -> RecTensionVals] :
        \A c \in ColSet(tcols) : IsNaN(rt[c]) <=> ttargets[c] = Int2F(1500)}

\* Lines 975-993: the iteration of the loop over the rows of summary_df for
\* row dv.
RecommendDevice ==
    /\ pcI = "loop"
    /\ insight_task = HOMOGENIZE
    /\ dv = 0
    /\ dv' \in 1..NumDevices
    /\ \E rm \in [ColSet(moisture_cols) -> RecMoistureVals],
          rt \in RowTensions(tension_cols, target_tension_values),
          up \in [1..Len(moisture_cols) -> BOOLEAN] :
            /\ row' = [m |-> rm, t |-> rt]
            /\ device_rec' = DeviceRec(row', moisture_cols, tension_cols,
                                       moisture_inputs, target_tension_values, up)
    /\ UNCHANGED <<insight_task, moisture_cols, tension_cols, moisture_inputs,
                   target_tension_values, alerts, n_alerts, shown, pcI, othersI>>

\* Lines 995-1002: the table of the recommendations.
ShowRecs ==
    /\ pcI = "loop"
    /\ insight_task = HOMOGENIZE
    /\ dv >= 1
    /\ shown' = "table"
    /\ pcI' = "done"
    /\ UNCHANGED <<insight_task, moisture_cols, tension_cols, moisture_inputs,
                   target_tension_values, dv, row, device_rec, alerts, n_alerts,
                   othersI>>

\* The differences the loop computed for level l of the last row.
MoistureDiff(l) ==
    FSub(moisture_inputs[Sorted(moisture_cols)[l]], row.m[Sorted(moisture_cols)[l]])

TensionDiff(l) ==
    FSub(row.t[Sorted(tension_cols)[l]],
         target_tension_values[Sorted(tension_cols)[l]])

Recommended == insight_task = HOMOGENIZE /\ dv >= 1

(***************************************************************************)
(* C11: for every device and paired level the action is 'Add' exactly when *)
(* moisture_diff + tension_diff/10 > 0 and 'Remove' otherwise, a score of  *)
(* exactly 0 included: moisture_diff = 1 with tension_diff = -20 gives     *)
(* 'Remove', and moisture_diff = 15 gives 'Add' unless tension_diff is at  *)
(* most -150.                                                              *)
(***************************************************************************)
C11_ActionBySignOfScore ==
    Recommended =>
        \A l \in DOMAIN device_rec :
            LET md == MoistureDiff(l)
                td == TensionDiff(l)
                positive == /\ IsNum(md)
                            /\ IsNum(td)
                            /\ 10 * md.n * td.d + td.n * md.d > 0
            IN  /\ device_rec[l].action = (IF positive THEN "Add" ELSE "Remove")
                /\ (md = Int2F(1) /\ td = Int2F(-20))
                      => device_rec[l].action = "Remove"
                /\ (md = Int2F(15) /\ IsNum(td))
                      => (device_rec[l].action = "Add" <=> td.n > -150 * td.d)

\* One row gave a score of exactly 0 at one level ('Remove') and a moisture
\* difference of 15 with a tension difference of -20 at another ('Add').
C11_Witness_ZeroScoreAndAdd ==
    /\ Recommended
    /\ \E l1, l2 \in DOMAIN device_rec :
          /\ MoistureDiff(l1) = Int2F(1)
          /\ TensionDiff(l1) = Int2F(-10)
          /\ device_rec[l1].action = "Remove"
          /\ MoistureDiff(l2) = Int2F(15)
          /\ TensionDiff(l2) = Int2F(-20)
          /\ device_rec[l2].action = "Add"

TENSION_FAULT_LIMIT == 1500

\* Means of a moisture and of a tension column in the rows the detector reads.
DetMoistureVals == {NaN, Int2F(0), Int2F(25)}

DetTensionVals == {NaN, Int2F(100), Int2F(1500), Int2F(-1500), Int2F(1800),
                   Int2F(-1501)}

\* Line 1023: pd.isna(moisture_val) or moisture_val == 0.
MoistureFault(moisture_val) == IsNaN(moisture_val) \/ moisture_val = Int2F(0)

TensionFaultFromLimit(tension_val) ==
    IsNaN(tension_val) \/ FLe(Int2F(TENSION_FAULT_LIMIT), FAbs(tension_val))

\* Line 1030: pd.isna(tension_val) or abs(tension_val) > 1500.
TensionFault(tension_val) ==
    IsNaN(tension_val) \/ FLt(Int2F(TENSION_FAULT_LIMIT), FAbs(tension_val))

\* Lines 1021-1026: the moisture alerts of a row from column j on, in the
\* order of moisture_cols; level is i + 1.
RECURSIVE MoistureAlerts(_, _, _, _)
MoistureAlerts(device, r, mcols, j) ==
    IF j > Len(mcols) THEN <<>>
    ELSE (IF MoistureFault(r.m[mcols[j]])
          THEN <<[device |-> device, sensor |-> "moisture", level |-> j]>>
          ELSE <<>>)
         \o MoistureAlerts(device, r, mcols, j + 1)

\* Lines 1028-1033: the tension alerts of a row.
RECURSIVE TensionAlerts(_, _, _, _)
TensionAlerts(device, r, tcols, j) ==
    IF j > Len(tcols) THEN <<>>
    ELSE (IF TensionFault(r.t[tcols[j]])
          THEN <<[device |-> device, sensor |-> "tension", level |-> j]>>
          ELSE <<>>)
         \o TensionAlerts(device, r, tcols, j + 1)

\* Lines 1018-1033: the iteration of the detector loop for row dv.
DetectDevice ==
    /\ pcI = "loop"
    /\ insight_task = DETECT
    /\ dv = 0
    /\ dv' \in 1..NumDevices
    /\ \E rm \in [ColSet(moisture_cols) -> DetMoistureVals],
          rt \in [ColSet(tension_cols) -> DetTensionVals] :
            row' = [m |-> rm, t |-> rt]
    /\ alerts' = MoistureAlerts(dv', row', moisture_cols, 1)
                 \o TensionAlerts(dv', row', tension_cols, 1)
    /\ UNCHANGED <<insight_task, moisture_cols, tension_cols, moisture_inputs,
                   target_tension_values, device_rec, n_alerts, shown, pcI,
                   othersI>>

\* Lines 1034-1041: the alerts as errors, or the success message when no row
\* raised one (others: the alerts of the other rows).
ShowAlerts ==
    /\ pcI = "loop"
    /\ insight_task = DETECT
    /\ dv >= 1
    /\ \E others \in 0..1 : n_alerts' = Len(alerts) + others
    /\ shown' = IF n_alerts' > 0 THEN "errors" ELSE "success"
    /\ pcI' = "done"
    /\ UNCHANGED <<insight_task, moisture_cols, tension_cols, moisture_inputs,
                   target_tension_values, dv, row, device_rec, alerts, othersI>>

Detected == insight_task = DETECT /\ dv >= 1

\* The alerts of the followed row for a sensor kind and a level.
AlertCount(sensor, level) ==
    Cardinality({q \in DOMAIN alerts :
                   alerts[q] = [device |-> dv, sensor |-> sensor, level |-> level]})

(***************************************************************************)
(* C12: for every device summary the detector emits exactly one moisture   *)
(* alert for each moisture column whose mean is missing or 0, exactly one  *)
(* tension alert for each tension column whose mean is missing or has an   *)
(* absolute value strictly above 1500, and no other alert; a mean of 1500  *)
(* or -1500 raises none, and moisture level 1 = 0 with tension level 2 =   *)
(* 1800 (all else valid) yields exactly two alerts.                        *)
(***************************************************************************)
C12_AlertsExactlyForFaults ==
    Detected =>
        /\ \A j \in DOMAIN moisture_cols :
              LET v == row.m[moisture_cols[j]]
              IN  AlertCount("moisture", j) =
                    (IF IsNaN(v) \/ (IsNum(v) /\ v.n = 0) THEN 1 ELSE 0)
        /\ \A j \in DOMAIN tension_cols :
              LET v == row.t[tension_cols[j]]
              IN  /\ AlertCount("tension", j) =
                       (IF IsNaN(v) \/ (IsNum(v) /\ Abs(v.n) > 1500 * v.d)
                        THEN 1 ELSE 0)
                  /\ v \in {Int2F(1500), Int2F(-1500)}
                        => AlertCount("tension", j) = 0
        /\ \A q \in DOMAIN alerts :
              /\ alerts[q].device = dv
              /\ \/ alerts[q].sensor = "moisture"
                       /\ alerts[q].level \in DOMAIN moisture_cols
                 \/ alerts[q].sensor = "tension"
                       /\ alerts[q].level \in DOMAIN tension_cols
        /\ \A q1, q2 \in DOMAIN alerts : alerts[q1] = alerts[q2] => q1 = q2
        /\ (/\ Len(moisture_cols) = 2
            /\ Len(tension_cols) = 2
            /\ row.m[moisture_cols[1]] = Int2F(0)
            /\ row.m[moisture_cols[2]] = Int2F(25)
            /\ row.t[tension_cols[1]] = Int2F(1500)
            /\ row.t[tension_cols[2]] = Int2F(1800))
              => Len(alerts) = 2

\* The detector went through a row with moisture 0 at level 1, tension 1800
\* at level 2 and tension exactly 1500 at level 1, and raised two alerts.
C12_Witness_TwoAlerts ==
    /\ Detected
    /\ Len(moisture_cols) = 2
    /\ Len(tension_cols) = 2
    /\ row.m[moisture_cols[1]] = Int2F(0)
    /\ row.m[moisture_cols[2]] = Int2F(25)
    /\ row.t[tension_cols[1]] = Int2F(1500)
    /\ row.t[tension_cols[2]] = Int2F(1800)
    /\ alerts = <<[device |-> dv, sensor |-> "moisture", level |-> 1],
                  [device |-> dv, sensor |-> "tension", level |-> 2]>>

\* Lines 978-979 and 945: the column the recommendation loop and the
\* derived-target display call "Level l" is sorted(cols)[l - 1].
RecLevelColumn(cols, l) == Sorted(cols)[l]

\* Lines 1021 and 1028: the column the detector calls "level j" is
\* cols[j - 1], in the order of the columns of the dataset.
DetLevelColumn(cols, j) == cols[j]

(***************************************************************************)
(* C22: when a device's average moisture or average tension for a level is *)
(* missing, the recommender reports neither 'Add' nor 'Remove' for that    *)
(* device and level.  In the code a missing average makes dryness_score    *)
(* NaN, dryness_score > 0 is False and the action is 'Remove'.             *)
(***************************************************************************)
C22_MissingAverageGivesNoAction ==
    Recommended =>
        \A l \in DOMAIN device_rec :
            (\/ IsNaN(row.m[RecLevelColumn(moisture_cols, l)])
             \/ IsNaN(row.t[RecLevelColumn(tension_cols, l)]))
                => device_rec[l].action \notin {"Add", "Remove"}

(***************************************************************************)
(* C23: the action and the volume describe the same direction of change:   *)
(* whenever the action is 'Add' moisture_diff >= 0, and whenever the       *)
(* action is 'Remove' with a non-zero volume moisture_diff < 0.  Stated    *)
(* for the levels whose averages both hold a value.  The action follows    *)
(* the sign of moisture_diff + tension_diff / 10, the volume is            *)
(* |moisture_diff| * 0.67.                                                 *)
(***************************************************************************)
C23_ActionMatchesMoistureDirection ==
    Recommended =>
        \A l \in DOMAIN device_rec :
            LET md == MoistureDiff(l)
                td == TensionDiff(l)
            IN  (IsNum(md) /\ IsNum(td)) =>
                    /\ device_rec[l].action = "Add" => md.n >= 0
                    /\ (device_rec[l].action = "Remove"
                           /\ device_rec[l].change # Int2F(0)) => md.n < 0

(***************************************************************************)
(* C24: the level number shown for a sensor is the same in all places: an  *)
(* alert of the detector for moisture (tension) 'level i' is about the     *)
(* column that the recommender's 'Level i' and the derived-target          *)
(* 'Level i' line refer to, for every order of the columns in the dataset. *)
(* The detector numbers the columns in dataset order, the other two in     *)
(* sorted order.                                                           *)
(***************************************************************************)
C24_SameLevelNumberEverywhere ==
    Detected =>
        \A q \in DOMAIN alerts :
            IF alerts[q].sensor = "moisture"
            THEN DetLevelColumn(moisture_cols, alerts[q].level)
                    = RecLevelColumn(moisture_cols, alerts[q].level)
            ELSE DetLevelColumn(tension_cols, alerts[q].level)
                    = RecLevelColumn(tension_cols, alerts[q].level)

NextI == RecommendDevice \/ ShowRecs \/ DetectDevice \/ ShowAlerts

SpecInsights == InitI /\ [][NextI]_vars

====
